---- MODULE Spec2Model ----
(***************************************************************************)
(* Model of the BPE tokenizer: the prefix trie (Node), the Tokenizer       *)
(* (register / tokenize / detokenize), the sequential builder generate     *)
(* (src/src/lib.rs) and the fork-join builder                              *)
(* parallel_generate_with_base_vocabulary (src/src/with_rayon.rs).         *)
(*                                                                         *)
(* The trie of owned Node values is held as one function from the symbol   *)
(* path of a node (root symbol first) to the node's token_value; a node's  *)
(* children are the paths that extend its path by one symbol.  Pointers    *)
(* are 0-based as in the source, so read_buffer[p] of the source is        *)
(* read_buffer[p + 1] here.                                                *)
(***************************************************************************)
EXTENDS Integers, Sequences, FiniteSets, TLC

\* ------------------------------------------------------------------------
\* Bounds of the model
\* ------------------------------------------------------------------------
MaxLen == 5        \* number of symbols of generate's corpus
MaxChunkedLen == 4 \* total number of symbols of the parallel builder's chunks
MaxChunks == 2     \* number of chunks handed to the parallel builder
MaxTarget == 4     \* largest target_vocabulary_size
MaxInput == 2      \* longest free input handed to Tokenizer::tokenize
MaxPath == 3       \* longest token handed to Tokenizer::register by a direct caller
MaxId == 1         \* largest token_value handed to Tokenizer::register by a direct caller
MaxCalls == 2      \* number of direct calls of Tokenizer::register

Symbols == {"a", "b"}

SeqsUpTo(S, n) == UNION {[1..m -> S] : m \in 0..n}

Range(f) == {f[x] : x \in DOMAIN f}

EmptyMap == <<>>

\* every list of exactly n chunks whose concatenation is c
RECURSIVE Splits(_, _)
Splits(c, n) ==
    IF n = 1 THEN {<<c>>}
    ELSE UNION {{<<SubSeq(c, 1, i)>> \o rest :
                    rest \in Splits(SubSeq(c, i + 1, Len(c)), n - 1)} :
                i \in 0..Len(c)}

Corpora == SeqsUpTo(Symbols, MaxLen)

ChunkLists ==
    UNION {Splits(c, n) : c \in SeqsUpTo(Symbols, MaxChunkedLen), n \in 1..MaxChunks}

RECURSIVE Flatten(_)
Flatten(ss) == IF ss = <<>> THEN <<>> ELSE Head(ss) \o Flatten(Tail(ss))

\* ------------------------------------------------------------------------
\* Node (lib.rs 10-93)
\* ------------------------------------------------------------------------

\* a chain whose every node carries token_value
RECURSIVE NodeNewFilled(_, _, _)
NodeNewFilled(at, byte_value, token_value) ==
    LET me == Append(at, byte_value[1]) IN
    IF Len(byte_value) = 1
    THEN (me :> token_value)
    ELSE (me :> token_value) @@ NodeNewFilled(me, Tail(byte_value), token_value)

\* Node::new: the chain of nodes below the node at path `at` for byte_value;
\* every node but the last carries the placeholder 0.
RECURSIVE NodeNew(_, _, _)
NodeNew(at, byte_value, token_value) ==
    LET me == Append(at, byte_value[1]) IN
    IF Len(byte_value) = 1
    THEN (me :> token_value)
    ELSE (me :> 0) @@ NodeNew(me, Tail(byte_value), token_value)

\* Node::register on the node at path self (byte_value[1] is self's symbol)
RECURSIVE NodeRegister(_, _, _, _)
NodeRegister(children, self, byte_value, token_value) ==
    IF Len(byte_value) = 1
    THEN [children EXCEPT ![self] = token_value]
    ELSE LET child == Append(self, byte_value[2]) IN
         IF child \notin DOMAIN children
         THEN NodeNew(self, Tail(byte_value), token_value) @@ children
         ELSE NodeRegister(children, child, Tail(byte_value), token_value)

\* a walk that descends whether or not the next symbol has a child
NodeTokenizeNoWriteBlind(children, self, read_buffer, pointer) == Len(read_buffer)

\* Node::tokenize_no_write on the node at path self: the pointer after the walk
RECURSIVE NodeTokenizeNoWrite(_, _, _, _)
NodeTokenizeNoWrite(children, self, read_buffer, pointer) ==
    LET p == pointer + 1 IN
    IF p < Len(read_buffer)
    THEN LET child == Append(self, read_buffer[p + 1]) IN
         IF child \in DOMAIN children
         THEN NodeTokenizeNoWrite(children, child, read_buffer, p)
         ELSE p
    ELSE p

\* Node::tokenize, with the pointer not advanced on entry (the bug of a walk
\* that re-reads the symbol it was dispatched on)
RECURSIVE NodeTokenizeStale(_, _, _, _)
NodeTokenizeStale(children, self, read_buffer, pointer) ==
    LET p == pointer + 1 IN
    IF p < Len(read_buffer)
    THEN LET child == Append(self, read_buffer[p]) IN
         IF child \in DOMAIN children
         THEN NodeTokenizeStale(children, child, read_buffer, p)
         ELSE [pointer |-> p, id |-> children[self]]
    ELSE [pointer |-> p, id |-> children[self]]

\* a walk that stops at the root node it was dispatched on
NodeTokenizeShallow(children, self, read_buffer, pointer) ==
    [pointer |-> pointer + 1, id |-> children[self]]

\* Node::tokenize on the node at path self: the pointer after the walk and
\* the token id pushed on the write buffer
RECURSIVE NodeTokenize(_, _, _, _)
NodeTokenize(children, self, read_buffer, pointer) ==
    LET p == pointer + 1 IN
    IF p < Len(read_buffer)
    THEN LET child == Append(self, read_buffer[p + 1]) IN
         IF child \in DOMAIN children
         THEN NodeTokenize(children, child, read_buffer, p)
         ELSE [pointer |-> p, id |-> children[self]]
    ELSE [pointer |-> p, id |-> children[self]]

\* ------------------------------------------------------------------------
\* Tokenizer (lib.rs 96-159)
\* ------------------------------------------------------------------------

\* Tokenizer::default
TokenizerDefault == [children |-> EmptyMap, lookup |-> EmptyMap]

\* Tokenizer::register
TokenizerRegister(tk, token, token_value) ==
    LET lk == (token_value :> token) @@ tk.lookup
        root == <<token[1]>>
    IN  IF root \notin DOMAIN tk.children
        THEN [children |-> NodeNew(<<>>, token, token_value) @@ tk.children,
              lookup |-> lk]
        ELSE [children |-> NodeRegister(tk.children, root, token, token_value),
              lookup |-> lk]

\* a dispatch that leaves the pointer where it was
TokenizeItemStuck(tk, buffer, pointer) ==
    [panic |-> <<buffer[pointer + 1]>> \notin DOMAIN tk.children, pointer |-> pointer]

\* Tokenizer::tokenize_item_no_write: the pointer after one dispatch;
\* panic when the symbol under the pointer has no root node
TokenizeItemNoWrite(tk, buffer, pointer) ==
    LET root == <<buffer[pointer + 1]>> IN
    IF root \notin DOMAIN tk.children
    THEN [panic |-> TRUE, pointer |-> pointer]
    ELSE [panic |-> FALSE,
          pointer |-> NodeTokenizeNoWrite(tk.children, root, buffer, pointer)]

\* Tokenizer::tokenize: the whole while loop from `pointer`; the ids pushed
\* and the final pointer; panic when a dispatch finds no root node
RECURSIVE TokenizerTokenize(_, _, _, _)
TokenizerTokenize(tk, read_buffer, write_buffer, pointer) ==
    IF pointer < Len(read_buffer)
    THEN LET root == <<read_buffer[pointer + 1]>> IN
         IF root \notin DOMAIN tk.children
         THEN [panic |-> TRUE, write_buffer |-> write_buffer, pointer |-> pointer]
         ELSE LET r == NodeTokenize(tk.children, root, read_buffer, pointer) IN
              TokenizerTokenize(tk, read_buffer, Append(write_buffer, r.id), r.pointer)
    ELSE [panic |-> FALSE, write_buffer |-> write_buffer, pointer |-> pointer]

\* Tokenizer::detokenize: the symbols appended; panic when an id has no
\* lookup entry (unwrap of None)
RECURSIVE TokenizerDetokenize(_, _, _)
TokenizerDetokenize(tk, read_buffer, write_buffer) ==
    IF read_buffer = <<>>
    THEN [panic |-> FALSE, write_buffer |-> write_buffer]
    ELSE IF Head(read_buffer) \notin DOMAIN tk.lookup
         THEN [panic |-> TRUE, write_buffer |-> write_buffer]
         ELSE TokenizerDetokenize(tk, Tail(read_buffer),
                                  write_buffer \o tk.lookup[Head(read_buffer)])

\* ------------------------------------------------------------------------
\* The builders' pure steps
\* ------------------------------------------------------------------------

\* pairs_count.entry(key).and_modify(|count| *count += 1).or_insert(1)
EntryIncrement(pairs_count, key) ==
    IF key \in DOMAIN pairs_count
    THEN [pairs_count EXCEPT ![key] = @ + 1]
    ELSE (key :> 1) @@ pairs_count

\* a counting loop that extends a token by the two symbols that follow it
SeqCountIterTwoAhead(tk, input, pointer, pairs_count) ==
    LET curr_val_pointer == pointer
        r == TokenizeItemNoWrite(tk, input, pointer)
    IN  IF r.panic
        THEN [panic |-> TRUE, pointer |-> pointer, pairs_count |-> pairs_count]
        ELSE IF r.pointer < Len(input) - 2
             THEN [panic |-> FALSE, pointer |-> r.pointer + 2,
                   pairs_count |-> EntryIncrement(pairs_count,
                        SubSeq(input, curr_val_pointer + 1, r.pointer + 2))]
             ELSE [panic |-> FALSE, pointer |-> r.pointer,
                   pairs_count |-> EntryIncrement(pairs_count,
                        SubSeq(input, curr_val_pointer + 1, r.pointer))]

\* generate, one iteration of the inner while loop (lib.rs 192-211).  The
\* loop guard gives Len(input) >= 1, so input.len() - 1 does not wrap.
SeqCountIter(tk, input, pointer, pairs_count) ==
    LET curr_val_pointer == pointer
        r == TokenizeItemNoWrite(tk, input, pointer)
    IN  IF r.panic
        THEN [panic |-> TRUE, pointer |-> pointer, pairs_count |-> pairs_count]
        ELSE IF r.pointer < Len(input) - 1
             THEN [panic |-> FALSE, pointer |-> r.pointer + 1,
                   pairs_count |-> EntryIncrement(pairs_count,
                        SubSeq(input, curr_val_pointer + 1, r.pointer + 1))]
             ELSE [panic |-> FALSE, pointer |-> r.pointer,
                   pairs_count |-> EntryIncrement(pairs_count,
                        SubSeq(input, curr_val_pointer + 1, r.pointer))]

\* the map closure with the extension guard `pointer < curr_input.len()`
ParCountIterToEnd(tk, curr_input, pointer, pairs_count) ==
    LET curr_val_pointer == pointer
        r == TokenizeItemNoWrite(tk, curr_input, pointer)
    IN  IF r.panic
        THEN [panic |-> TRUE, pointer |-> pointer, pairs_count |-> pairs_count]
        ELSE IF r.pointer < Len(curr_input)
             THEN [panic |-> FALSE, pointer |-> r.pointer + 1,
                   pairs_count |-> EntryIncrement(pairs_count,
                        SubSeq(curr_input, curr_val_pointer + 1, r.pointer + 1))]
             ELSE [panic |-> FALSE, pointer |-> r.pointer,
                   pairs_count |-> EntryIncrement(pairs_count,
                        SubSeq(curr_input, curr_val_pointer + 1, r.pointer))]

\* the map closure of the parallel builder, one iteration of its while loop
\* (with_rayon.rs 54-73)
ParCountIter(tk, curr_input, pointer, pairs_count) ==
    LET curr_val_pointer == pointer
        r == TokenizeItemNoWrite(tk, curr_input, pointer)
    IN  IF r.panic
        THEN [panic |-> TRUE, pointer |-> pointer, pairs_count |-> pairs_count]
        ELSE IF r.pointer < Len(curr_input) - 1
             THEN [panic |-> FALSE, pointer |-> r.pointer + 1,
                   pairs_count |-> EntryIncrement(pairs_count,
                        SubSeq(curr_input, curr_val_pointer + 1, r.pointer + 1))]
             ELSE [panic |-> FALSE, pointer |-> r.pointer,
                   pairs_count |-> EntryIncrement(pairs_count,
                        SubSeq(curr_input, curr_val_pointer + 1, r.pointer))]

\* a merge that inserts the local count over the count so far
MergeCountsOverwriting(acc, pc) ==
    [k \in (DOMAIN acc) \cup (DOMAIN pc) |->
        IF k \in DOMAIN pc THEN pc[k] ELSE acc[k]]

\* consolidated_pair_counts.entry(k).and_modify(|count| *count += v).or_insert(*v)
\* for every (k, v) of one local map
MergeCounts(acc, pc) ==
    [k \in (DOMAIN acc) \cup (DOMAIN pc) |->
        (IF k \in DOMAIN acc THEN acc[k] ELSE 0)
      + (IF k \in DOMAIN pc THEN pc[k] ELSE 0)]

\* the consolidation loop over rslts (with_rayon.rs 80-88)
RECURSIVE Consolidate(_, _)
Consolidate(acc, rslts) ==
    IF rslts = <<>> THEN acc
    ELSE Consolidate(MergeCounts(acc, Head(rslts)), Tail(rslts))

\* a selection without the filter
CandidatesUnfiltered(counts, sl) == DOMAIN counts

\* .filter(|(key, _)| straight_lookup.get(key).is_none())
Candidates(counts, sl) == {k \in DOMAIN counts : k \notin DOMAIN sl}

\* .max_by_key(|(_, pair_count)| *pair_count): the map iterates in an
\* arbitrary order, so any candidate of highest count can be the one returned
MaxByKey(counts, sl) ==
    {k \in Candidates(counts, sl) :
        \A j \in Candidates(counts, sl) : counts[j] <= counts[k]}

\* an id tracker that skips an id
IncrementSkipping(token_value) == token_value + 2

\* curr_token_value += 1 (lib.rs 182 and 224, with_rayon.rs 40 and 101)
IncrementIdTracker(token_value) == token_value + 1

\* the distinct symbols of a buffer (the HashSet of the first pass)
Alphabet(buf) == {buf[i] : i \in 1..Len(buf)}

\* ------------------------------------------------------------------------
\* State
\* ------------------------------------------------------------------------
VARIABLES
    builder,                  \* "generate" or "parallel": the builder called
    inputs,                   \* the chunks (with_rayon.rs 15); generate's input is inputs[1]
    base_vocabulary,          \* elements of the Vec of with_rayon.rs 16
    target_vocabulary_size,   \* lib.rs 161, with_rayon.rs 17
    tokenizer,                \* [children, lookup] (lib.rs 100-101, 165)
    straight_lookup,          \* symbol sequence -> id (lib.rs 167)
    curr_token_value,         \* lib.rs 170
    token_set,                \* elements of the HashSet of lib.rs 174 not yet visited
    pc,                       \* position of the calling thread
    pointer,                  \* generate's pointer into input (lib.rs 191)
    pairs_count,              \* generate's frequency map of the round (lib.rs 189)
    workers,                  \* per chunk: the map closure's status, pointer, pairs_count
                              \* (with_rayon.rs 50-76)
    consolidated_pair_counts, \* the summed map of the round (with_rayon.rs 80)
    deterministic,            \* whether iteration orders follow one fixed rule
                              \* (then both builders are run on the corpus)
    fixed,                    \* the iteration orders fixed so far, when deterministic
    seq_result,               \* outcome of generate, kept for the parallel run that follows
    read_buffer,              \* input of Tokenizer::tokenize (lib.rs 132)
    write_buffer,             \* ids written by Tokenizer::tokenize (lib.rs 133)
    detokenized,              \* symbols written by Tokenizer::detokenize (lib.rs 155)
    registered                \* the direct calls of Tokenizer::register made so far
                              \* (lib.rs 115), as <<token, token_value>>; none during a build

vars == <<builder, inputs, base_vocabulary, target_vocabulary_size, tokenizer,
          straight_lookup, curr_token_value, token_set, pc, pointer, pairs_count,
          workers, consolidated_pair_counts, deterministic, fixed, seq_result,
          read_buffer, write_buffer, detokenized, registered>>

input == inputs[1]

NoWorkers == <<>>

NoResult == [pc |-> "none", tokenizer |-> TokenizerDefault]

NoOrders == [order |-> <<>>, ties |-> EmptyMap]

\* the state right after `let mut curr_token_value: usize = 0` of either builder
Init ==
    /\ \/ /\ builder = "generate"
          /\ inputs \in {<<c>> : c \in Corpora}
          /\ base_vocabulary = {}
          /\ token_set = Alphabet(inputs[1])
          /\ deterministic \in BOOLEAN
       \/ /\ builder = "parallel"
          /\ inputs \in ChunkLists
          /\ base_vocabulary \in SUBSET Symbols
          /\ token_set = base_vocabulary
          /\ deterministic = FALSE
    /\ target_vocabulary_size \in 0..MaxTarget
    /\ tokenizer = TokenizerDefault
    /\ straight_lookup = EmptyMap
    /\ curr_token_value = 0
    /\ pc = "first_pass"
    /\ pointer = 0
    /\ pairs_count = EmptyMap
    /\ workers = NoWorkers
    /\ consolidated_pair_counts = EmptyMap
    /\ fixed = NoOrders
    /\ seq_result = NoResult
    /\ read_buffer = <<>>
    /\ write_buffer = <<>>
    /\ detokenized = <<>>
    /\ registered = <<>>

\* ------------------------------------------------------------------------
\* First pass of either builder (lib.rs 173-184, with_rayon.rs 31-42)
\* ------------------------------------------------------------------------

\* the element the HashSet iteration yields next: any remaining one, or the
\* one the fixed order names
NextOfSet ==
    IF deterministic /\ Len(fixed.order) > curr_token_value
    THEN {fixed.order[curr_token_value + 1]}
    ELSE token_set

\* one iteration of `for elem in token_set`
RegisterSingle ==
    /\ pc = "first_pass"
    /\ token_set # {}
    /\ \E elem \in NextOfSet :
        /\ tokenizer' = TokenizerRegister(tokenizer, <<elem>>, curr_token_value)
        /\ straight_lookup' = (<<elem>> :> curr_token_value) @@ straight_lookup
        /\ token_set' = token_set \ {elem}
        /\ fixed' = IF deterministic /\ Len(fixed.order) = curr_token_value
                    THEN [fixed EXCEPT !.order = Append(@, elem)]
                    ELSE fixed
    /\ curr_token_value' = IncrementIdTracker(curr_token_value)
    /\ UNCHANGED <<registered, builder, inputs, base_vocabulary, target_vocabulary_size, pc,
                   pointer, pairs_count, workers, consolidated_pair_counts,
                   deterministic, seq_result, read_buffer, write_buffer, detokenized>>

\* the for loop ends
FirstPassDone ==
    /\ pc = "first_pass"
    /\ token_set = {}
    /\ pc' = "loop"
    /\ UNCHANGED <<registered, builder, inputs, base_vocabulary, target_vocabulary_size,
                   tokenizer, straight_lookup, curr_token_value, token_set, pointer,
                   pairs_count, workers, consolidated_pair_counts, deterministic,
                   fixed, seq_result, read_buffer, write_buffer, detokenized>>

\* ------------------------------------------------------------------------
\* generate (lib.rs 161-228)
\* ------------------------------------------------------------------------

\* a loop guard that runs one round too many
SeqContinueOffByOne == curr_token_value <= target_vocabulary_size

\* generate's loop guard (lib.rs 187)
SeqContinue == curr_token_value < target_vocabulary_size

\* `while curr_token_value < target_vocabulary_size`, and `return tokenizer`
SeqLoopHead ==
    /\ builder = "generate"
    /\ pc = "loop"
    /\ IF SeqContinue
       THEN /\ pc' = "count"
            /\ pairs_count' = EmptyMap
            /\ pointer' = 0
       ELSE /\ pc' = "done"
            /\ UNCHANGED <<pairs_count, pointer>>
    /\ UNCHANGED <<registered, builder, inputs, base_vocabulary, target_vocabulary_size,
                   tokenizer, straight_lookup, curr_token_value, token_set,
                   workers, consolidated_pair_counts, deterministic, fixed,
                   seq_result, read_buffer, write_buffer, detokenized>>

\* one iteration of `while pointer < input.len()`
SeqCountStep ==
    /\ builder = "generate"
    /\ pc = "count"
    /\ pointer < Len(input)
    /\ LET r == SeqCountIter(tokenizer, input, pointer, pairs_count) IN
        /\ pc' = IF r.panic THEN "panic" ELSE "count"
        /\ pointer' = r.pointer
        /\ pairs_count' = r.pairs_count
    /\ UNCHANGED <<registered, builder, inputs, base_vocabulary, target_vocabulary_size,
                   tokenizer, straight_lookup, curr_token_value, token_set,
                   workers, consolidated_pair_counts, deterministic, fixed,
                   seq_result, read_buffer, write_buffer, detokenized>>

\* the keys max_by_key can return for this map: under a fixed rule the one
\* already returned for the same map
Selectable(counts) ==
    IF deterministic /\ counts \in DOMAIN fixed.ties
    THEN {fixed.ties[counts]}
    ELSE MaxByKey(counts, straight_lookup)

Remember(counts, max_key) ==
    IF deterministic /\ counts \notin DOMAIN fixed.ties
    THEN [fixed EXCEPT !.ties = (counts :> max_key) @@ @]
    ELSE fixed

\* filter, max_by_key, unwrap, register, increment (lib.rs 214-224)
SeqSelect ==
    /\ builder = "generate"
    /\ pc = "count"
    /\ pointer >= Len(input)
    /\ IF Candidates(pairs_count, straight_lookup) = {}
       THEN /\ pc' = "panic"
            /\ UNCHANGED <<tokenizer, curr_token_value, fixed>>
       ELSE \E max_key \in Selectable(pairs_count) :
            /\ tokenizer' = TokenizerRegister(tokenizer, max_key, curr_token_value)
            /\ curr_token_value' = IncrementIdTracker(curr_token_value)
            /\ fixed' = Remember(pairs_count, max_key)
            /\ pc' = "loop"
    /\ UNCHANGED <<registered, builder, inputs, base_vocabulary, target_vocabulary_size,
                   straight_lookup, token_set, pointer, pairs_count, workers,
                   consolidated_pair_counts, deterministic, seq_result,
                   read_buffer, write_buffer, detokenized>>

\* ------------------------------------------------------------------------
\* parallel_generate_with_base_vocabulary (with_rayon.rs 14-105)
\* ------------------------------------------------------------------------

Chunks == 1..Len(inputs)

Idle == [status |-> "idle", pointer |-> 0, pairs_count |-> EmptyMap]

\* the parallel builder's loop guard (with_rayon.rs 47)
ParContinue == curr_token_value < target_vocabulary_size

\* `while curr_token_value < target_vocabulary_size`: fork one map closure
\* per chunk (inputs.par_iter().map(..)), or `return tokenizer`
ParLoopHead ==
    /\ builder = "parallel"
    /\ pc = "loop"
    /\ IF ParContinue
       THEN /\ pc' = "map"
            /\ workers' = [c \in Chunks |-> Idle]
       ELSE /\ pc' = "done"
            /\ UNCHANGED workers
    /\ UNCHANGED <<registered, builder, inputs, base_vocabulary, target_vocabulary_size,
                   tokenizer, straight_lookup, curr_token_value, token_set, pointer,
                   pairs_count, consolidated_pair_counts, deterministic, fixed,
                   seq_result, read_buffer, write_buffer, detokenized>>

\* the map closure on chunk c: one iteration of its while loop, or its
\* return of pairs_count when the pointer is at the end of the chunk
WorkerStep(c) ==
    /\ builder = "parallel"
    /\ c \in DOMAIN workers
    /\ workers[c].status \in {"idle", "running"}
    /\ LET w == workers[c] IN
        IF w.pointer < Len(inputs[c])
        THEN LET r == ParCountIter(tokenizer, inputs[c], w.pointer, w.pairs_count) IN
             workers' = [workers EXCEPT ![c] =
                            [status |-> IF r.panic THEN "panicked" ELSE "running",
                             pointer |-> r.pointer,
                             pairs_count |-> r.pairs_count]]
        ELSE workers' = [workers EXCEPT ![c].status = "done"]
    /\ UNCHANGED <<registered, builder, inputs, base_vocabulary, target_vocabulary_size,
                   tokenizer, straight_lookup, curr_token_value, token_set, pc,
                   pointer, pairs_count, consolidated_pair_counts, deterministic,
                   fixed, seq_result, read_buffer, write_buffer, detokenized>>

\* a barrier that lets the caller on as soon as one closure has returned
CollectedEarly ==
    /\ \E c \in DOMAIN workers : workers[c].status = "done"
    /\ \A c \in DOMAIN workers : workers[c].status # "panicked"

\* .collect(): the caller goes on when every closure has returned
Collected == \A c \in DOMAIN workers : workers[c].status = "done"

\* a panic of a closure is resumed in the caller once every closure has
\* returned or panicked (the join waits for all of them)
PanicPropagates ==
    /\ \E c \in DOMAIN workers : workers[c].status = "panicked"
    /\ \A c \in DOMAIN workers : workers[c].status \in {"done", "panicked"}

rslts == [c \in DOMAIN workers |-> workers[c].pairs_count]

\* the sequential reduce after the map phase (with_rayon.rs 77-88), or the
\* panic of a closure resumed in the caller
Reduce ==
    /\ builder = "parallel"
    /\ pc = "map"
    /\ \/ /\ Collected
          /\ consolidated_pair_counts' = Consolidate(EmptyMap, rslts)
          /\ pc' = "select"
       \/ /\ PanicPropagates
          /\ pc' = "panic"
          /\ UNCHANGED consolidated_pair_counts
    /\ UNCHANGED <<registered, builder, inputs, base_vocabulary, target_vocabulary_size,
                   tokenizer, straight_lookup, curr_token_value, token_set,
                   pointer, pairs_count, workers, deterministic, fixed,
                   seq_result, read_buffer, write_buffer, detokenized>>

\* filter, max_by_key, unwrap, register, increment (with_rayon.rs 91-101)
ParSelect ==
    /\ builder = "parallel"
    /\ pc = "select"
    /\ IF Candidates(consolidated_pair_counts, straight_lookup) = {}
       THEN /\ pc' = "panic"
            /\ UNCHANGED <<tokenizer, curr_token_value, fixed>>
       ELSE \E max_key \in Selectable(consolidated_pair_counts) :
            /\ tokenizer' = TokenizerRegister(tokenizer, max_key, curr_token_value)
            /\ curr_token_value' = IncrementIdTracker(curr_token_value)
            /\ fixed' = Remember(consolidated_pair_counts, max_key)
            /\ pc' = "loop"
    /\ UNCHANGED <<registered, builder, inputs, base_vocabulary, target_vocabulary_size,
                   straight_lookup, token_set, pointer, pairs_count, workers,
                   consolidated_pair_counts, deterministic, seq_result,
                   read_buffer, write_buffer, detokenized>>

\* ------------------------------------------------------------------------
\* Callers of the builders (lib.rs 286-299, with_rayon.rs 140-151)
\* ------------------------------------------------------------------------

\* the inputs a caller tokenizes: the training text itself, as the tests do,
\* and every short symbol sequence
TestInputs == SeqsUpTo(Symbols, MaxInput) \cup {Flatten(inputs)}

\* tokenizer.tokenize(&x, &mut token_buffer, &mut 0) on the returned tokenizer
CallTokenize ==
    /\ pc = "done"
    /\ \E x \in TestInputs :
        LET r == TokenizerTokenize(tokenizer, x, <<>>, 0) IN
        /\ read_buffer' = x
        /\ write_buffer' = r.write_buffer
        /\ pc' = IF r.panic THEN "tokenize_panic" ELSE "tokenized"
    /\ UNCHANGED <<registered, builder, inputs, base_vocabulary, target_vocabulary_size,
                   tokenizer, straight_lookup, curr_token_value, token_set,
                   pointer, pairs_count, workers, consolidated_pair_counts,
                   deterministic, fixed, seq_result, detokenized>>

\* tokenizer.detokenize(&token_buffer, &mut detokenized)
CallDetokenize ==
    /\ pc = "tokenized"
    /\ LET r == TokenizerDetokenize(tokenizer, write_buffer, <<>>) IN
        /\ detokenized' = r.write_buffer
        /\ pc' = IF r.panic THEN "detokenize_panic" ELSE "detokenized"
    /\ UNCHANGED <<registered, builder, inputs, base_vocabulary, target_vocabulary_size,
                   tokenizer, straight_lookup, curr_token_value, token_set,
                   pointer, pairs_count, workers, consolidated_pair_counts,
                   deterministic, fixed, seq_result, read_buffer, write_buffer>>

\* after generate(corpus, n) has returned or aborted, the same caller runs
\* parallel_generate_with_base_vocabulary([corpus], alphabet(corpus), n)
CallParallelOnSame ==
    /\ deterministic
    /\ builder = "generate"
    /\ pc \in {"done", "panic"}
    /\ seq_result' = [pc |-> pc, tokenizer |-> tokenizer]
    /\ builder' = "parallel"
    /\ base_vocabulary' = Alphabet(input)
    /\ token_set' = Alphabet(input)
    /\ tokenizer' = TokenizerDefault
    /\ straight_lookup' = EmptyMap
    /\ curr_token_value' = 0
    /\ pc' = "first_pass"
    /\ pointer' = 0
    /\ pairs_count' = EmptyMap
    /\ UNCHANGED <<registered, inputs, target_vocabulary_size, workers,
                   consolidated_pair_counts, deterministic, fixed,
                   read_buffer, write_buffer, detokenized>>

Next ==
    \/ RegisterSingle
    \/ FirstPassDone
    \/ SeqLoopHead
    \/ SeqCountStep
    \/ SeqSelect
    \/ ParLoopHead
    \/ \E c \in Chunks : WorkerStep(c)
    \/ Reduce
    \/ ParSelect
    \/ CallTokenize
    \/ CallDetokenize
    \/ CallParallelOnSame

Spec == Init /\ [][Next]_vars

\* the steps of the builders alone
BuildNext ==
    \/ RegisterSingle
    \/ FirstPassDone
    \/ SeqLoopHead
    \/ SeqCountStep
    \/ SeqSelect
    \/ ParLoopHead
    \/ \E c \in Chunks : WorkerStep(c)
    \/ Reduce
    \/ ParSelect

\* one call of a builder; the calling thread and the pool's threads keep
\* running while they have a step to take
FairSpec == Init /\ [][BuildNext]_vars /\ WF_vars(BuildNext)

\* ------------------------------------------------------------------------
\* Direct callers of Tokenizer::register (lib.rs 115-128)
\* ------------------------------------------------------------------------

\* the non-empty tokens a direct caller registers
RegisterPaths == SeqsUpTo(Symbols, MaxPath) \ {<<>>}

\* the state after Tokenizer::default(), no builder called
RegisterInit ==
    /\ builder = "none"
    /\ pc = "register"
    /\ tokenizer = TokenizerDefault
    /\ registered = <<>>
    /\ inputs = <<>>
    /\ base_vocabulary = {}
    /\ target_vocabulary_size = 0
    /\ straight_lookup = EmptyMap
    /\ curr_token_value = 0
    /\ token_set = {}
    /\ pointer = 0
    /\ pairs_count = EmptyMap
    /\ workers = NoWorkers
    /\ consolidated_pair_counts = EmptyMap
    /\ deterministic = FALSE
    /\ fixed = NoOrders
    /\ seq_result = NoResult
    /\ read_buffer = <<>>
    /\ write_buffer = <<>>
    /\ detokenized = <<>>

\* tokenizer.register(&token, token_value) with any non-empty token and any id
CallRegister ==
    /\ pc = "register"
    /\ Len(registered) < MaxCalls
    /\ \E token \in RegisterPaths, token_value \in 0..MaxId :
        /\ tokenizer' = TokenizerRegister(tokenizer, token, token_value)
        /\ registered' = Append(registered, <<token, token_value>>)
    /\ UNCHANGED <<builder, inputs, base_vocabulary, target_vocabulary_size,
                   straight_lookup, curr_token_value, token_set, pc, pointer,
                   pairs_count, workers, consolidated_pair_counts, deterministic,
                   fixed, seq_result, read_buffer, write_buffer, detokenized>>

RegisterNext == CallRegister

RegisterSpec == RegisterInit /\ [][RegisterNext]_vars

\* ------------------------------------------------------------------------
\* Properties
\* ------------------------------------------------------------------------

Lookup == tokenizer.lookup

Trie == tokenizer.children

VocabularySize == Cardinality(DOMAIN Lookup)

\* the symbols registered as single-symbol tokens
TrainedAlphabet == {s \in Symbols : <<s>> \in DOMAIN straight_lookup}

OverAlphabet(x) == \A i \in 1..Len(x) : x[i] \in TrainedAlphabet

\* C1: for a tokenizer returned by either builder and an input x made only
\* of trained symbols, tokenize does not abort, detokenize does not abort,
\* and detokenize(tokenize(x)) = x.
C1_RoundTrip ==
    OverAlphabet(read_buffer) =>
        /\ pc \notin {"tokenize_panic", "detokenize_panic"}
        /\ pc = "detokenized" => detokenized = read_buffer

\* a round trip through a merged token on a tokenizer of the parallel builder
C1_Witness ==
    /\ pc = "detokenized"
    /\ builder = "parallel"
    /\ OverAlphabet(read_buffer)
    /\ Len(read_buffer) >= 2
    /\ Len(write_buffer) < Len(read_buffer)
    /\ detokenized = read_buffer

\* the counts the round's selection reads
RoundCounts ==
    IF builder = "generate" THEN pairs_count ELSE consolidated_pair_counts

\* the number of single-symbol tokens of the first pass
FirstPassSize == Cardinality(DOMAIN straight_lookup)

\* a merge round has just registered its token
RoundRegistered == pc = "loop" /\ curr_token_value > FirstPassSize

\* the sequences registered before the last registration
EarlierTokens == {Lookup[i] : i \in (DOMAIN Lookup) \ {curr_token_value - 1}}

\* C2: the span a merge round registers is not already a registered token
\* (singleton or earlier merge) and has the highest count among the counted
\* spans that are not registered.
C2_SelectsUnregisteredMax ==
    RoundRegistered =>
        LET max_key == Lookup[curr_token_value - 1] IN
        /\ max_key \notin EarlierTokens
        /\ max_key \in DOMAIN RoundCounts
        /\ \A k \in (DOMAIN RoundCounts) \ EarlierTokens :
                RoundCounts[k] <= RoundCounts[max_key]

\* C3 as stated: after generate returns, lookup has exactly
\* target_vocabulary_size ids.
C3_SizeIsTarget ==
    (builder = "generate" /\ pc = "done") => VocabularySize = target_vocabulary_size

Max(a, b) == IF a >= b THEN a ELSE b

\* C3, amended: after generate returns, lookup has exactly
\* max(target_vocabulary_size, k) ids, k the number of distinct symbols of
\* the corpus.
C3_SizeIsTargetOrAlphabet ==
    (builder = "generate" /\ pc = "done") =>
        VocabularySize = Max(target_vocabulary_size, Cardinality(Alphabet(input)))

\* generate returned after at least one merge round
C3_Witness ==
    /\ builder = "generate"
    /\ pc = "done"
    /\ target_vocabulary_size > Cardinality(Alphabet(input))
    /\ VocabularySize = target_vocabulary_size

\* the spans Tokenizer::tokenize cuts buf into from `from` on (the greedy
\* segmentation), as far as the symbols have root nodes
RECURSIVE GreedySpans(_, _, _)
GreedySpans(tk, buf, from) ==
    IF from >= Len(buf) THEN <<>>
    ELSE LET r == TokenizeItemNoWrite(tk, buf, from) IN
         IF r.panic THEN <<>>
         ELSE <<SubSeq(buf, from + 1, r.pointer)>> \o GreedySpans(tk, buf, r.pointer)

\* one count per pair of adjacent spans, keyed by the two spans' symbols,
\* and one count for the last span
RECURSIVE AdjacentCounts(_, _)
AdjacentCounts(spans, i) ==
    IF i > Len(spans) THEN EmptyMap
    ELSE EntryIncrement(AdjacentCounts(spans, i + 1),
                        IF i < Len(spans) THEN spans[i] \o spans[i + 1] ELSE spans[i])

AdjacentCountsOf(buf) == AdjacentCounts(GreedySpans(tokenizer, buf, 0), 1)

\* generate has finished the counting loop of a round
SeqCounted == builder = "generate" /\ pc = "count" /\ pointer >= Len(input)

\* the parallel builder has finished the map and reduce phases of a round
ParCounted == builder = "parallel" /\ pc = "select"

\* C4: when a round has counted, the frequency map holds one count per pair
\* of adjacent spans of the greedy segmentation (keyed by the concatenation
\* of their symbols) plus one count for the last span; in the parallel
\* builder the sum of that over the chunks.
C4_CountsAdjacentSpans ==
    /\ SeqCounted => pairs_count = AdjacentCountsOf(input)
    /\ ParCounted => consolidated_pair_counts =
            Consolidate(EmptyMap, [c \in Chunks |-> AdjacentCountsOf(inputs[c])])

\* no merge can be made: the corpus is empty or every concatenation of two
\* adjacent spans of the greedy segmentation is a registered token
Unreachable ==
    LET spans == GreedySpans(tokenizer, input, 0) IN
    \/ input = <<>>
    \/ \A i \in 1..(Len(spans) - 1) : spans[i] \o spans[i + 1] \in Range(Lookup)

\* C5: generate's selection aborts exactly when no merge can be made; when
\* some concatenation of adjacent spans is not registered the round
\* registers a token.
C5_AbortsIffUnreachable ==
    [][SeqCounted => ((pc' = "panic") <=> Unreachable)]_vars

\* the parallel run on the same corpus is under way or over
Comparing == seq_result.pc # "none"

\* C6: under fixed iteration orders, the parallel builder on [corpus] and
\* alphabet(corpus) registers in every round the sequence generate registered
\* under the same id, and ends as generate ended (returning the same trie and
\* lookup, or aborting in the same round).
C6_SameVocabulary ==
    Comparing =>
        /\ \A i \in DOMAIN Lookup :
                /\ i \in DOMAIN seq_result.tokenizer.lookup
                /\ Lookup[i] = seq_result.tokenizer.lookup[i]
        /\ pc \in {"done", "panic"} =>
                /\ pc = seq_result.pc
                /\ tokenizer = seq_result.tokenizer

\* both builders returned after two merge rounds on the same corpus
C6_Witness ==
    /\ Comparing
    /\ pc = "done"
    /\ seq_result.pc = "done"
    /\ curr_token_value >= FirstPassSize + 2
    /\ FirstPassSize = 2
    /\ \E counts \in DOMAIN fixed.ties :
            Cardinality(MaxByKey(counts, straight_lookup)) >= 2

Running(w) == \E c \in DOMAIN w : w[c].status = "running"

Started(w) == \E c \in DOMAIN w : w[c].status # "idle"

\* the phases a round of the parallel builder may pass through, in order
PhaseOrder ==
    {<<"loop", "map">>, <<"map", "select">>, <<"select", "loop">>,
     <<"map", "panic">>, <<"select", "panic">>, <<"loop", "done">>}

\* C7: in the parallel builder the tokenizer is written only when no map
\* closure runs, a step of a closure leaves the tokenizer as it is and is
\* taken only in the map phase (so none of round r+1 starts before round r
\* has registered), and the phases follow each other as map, reduce, mutate.
C7_PhasesOrdered ==
    [][builder = "parallel" /\ builder' = "parallel" =>
        /\ tokenizer' # tokenizer => ~Running(workers) /\ ~Running(workers')
        /\ tokenizer' # tokenizer /\ pc # "first_pass" =>
                \A c \in DOMAIN workers : workers[c].status = "done"
        /\ (workers' # workers /\ Started(workers')) =>
                /\ pc = "map" /\ pc' = "map"
                /\ tokenizer' = tokenizer
                /\ straight_lookup' = straight_lookup
        /\ (pc' # pc /\ pc \in {"loop", "map", "select"}) => <<pc, pc'>> \in PhaseOrder
        /\ pc \in {"loop", "select"} => workers' = workers \/ ~Started(workers')
      ]_vars

\* a second round's token is registered after two chunks were counted
C7_Witness ==
    /\ builder = "parallel"
    /\ Len(inputs) >= 2
    /\ pc = "loop"
    /\ curr_token_value >= FirstPassSize + 2
    /\ \A c \in DOMAIN workers : workers[c].status = "done" /\ workers[c].pointer > 0

\* the number of distinct symbols the first pass registers
AlphabetSize ==
    IF builder = "generate" THEN Cardinality(Alphabet(input))
    ELSE Cardinality(base_vocabulary)

\* a build is under way (not the caller's reset between two builds)
SameBuild == builder' = builder

\* C8: ids are dense and never reused: lookup's ids are exactly
\* 0..size-1 and size is curr_token_value; the first k ids are the k
\* distinct symbols; a registration uses the id that equals the size so
\* far (so the r-th merge round uses k+r-1), and no registration changes
\* the sequence of an earlier id.
C8_DenseIds ==
    /\ [](/\ DOMAIN Lookup = 0..(curr_token_value - 1)
          /\ VocabularySize = curr_token_value
          /\ \A i \in DOMAIN Lookup : i < FirstPassSize <=> Len(Lookup[i]) = 1 /\ <<Lookup[i][1]>> \in DOMAIN straight_lookup /\ straight_lookup[Lookup[i]] = i
          /\ pc # "first_pass" => FirstPassSize = AlphabetSize)
    /\ [][SameBuild =>
            /\ \A i \in DOMAIN Lookup :
                    i \in DOMAIN tokenizer'.lookup /\ tokenizer'.lookup[i] = Lookup[i]
            /\ (DOMAIN tokenizer'.lookup) \ (DOMAIN Lookup) \subseteq {VocabularySize}
            /\ (pc \in {"count", "select"} /\ pc' = "loop") =>
                    (DOMAIN tokenizer'.lookup) \ (DOMAIN Lookup) = {curr_token_value}
       ]_vars

\* two merge rounds after a first pass of two symbols: ids 0..3
C8_Witness ==
    /\ pc = "done"
    /\ FirstPassSize = 2
    /\ DOMAIN Lookup = 0..3
    /\ Len(Lookup[2]) >= 2
    /\ Len(Lookup[3]) >= 2

\* C9: Tokenizer::tokenize on an input holding a symbol with no root node
\* aborts, wherever the symbol stands; and the parallel builder aborts in
\* the map phase when a chunk holds a symbol that is not in the base
\* alphabet.
C9_UnknownSymbolAborts ==
    /\ pc \in {"tokenized", "detokenized"} =>
            \A i \in 1..Len(read_buffer) : <<read_buffer[i]>> \in DOMAIN Trie
    /\ ParCounted =>
            \A c \in Chunks : \A i \in 1..Len(inputs[c]) : inputs[c][i] \in base_vocabulary

\* a builder is between its first statement and its return or abort
Building == pc \in {"first_pass", "loop", "count", "map", "select"}

Ended == pc \in {"done", "panic"}

\* the registrations a build still has to make: the symbols the first pass
\* has not visited and the ids missing up to the target
RegistrationsLeft ==
    Cardinality(token_set)
  + Max(0, target_vocabulary_size - curr_token_value)

RECURSIVE SumOver(_, _)
SumOver(f, S) ==
    IF S = {} THEN 0
    ELSE LET x == CHOOSE y \in S : TRUE IN f[x] + SumOver(f, S \ {x})

\* the steps a map closure still has to take
WorkerStepsLeft ==
    [c \in DOMAIN workers |->
        IF workers[c].status \in {"done", "panicked"} THEN 0
        ELSE 1 + Len(inputs[c]) - workers[c].pointer]

\* more than the steps of any one round
RoundSteps == 3 + Len(inputs) + Len(Flatten(inputs))

\* the steps the round under way still has to take
StepsLeftInRound ==
    CASE pc = "first_pass" -> RoundSteps + 1
      [] pc = "loop" -> RoundSteps
      [] pc = "count" -> 1 + Len(input) - pointer
      [] pc = "map" -> 2 + SumOver(WorkerStepsLeft, DOMAIN workers)
      [] pc = "select" -> 1
      [] OTHER -> 0

\* a bound on the steps a build still takes
Variant == RegistrationsLeft * (RoundSteps + 2) + StepsLeftInRound

\* C10: every call of a builder ends, returning or aborting: until then a
\* step can always be taken, every step lowers a natural number (so only
\* finitely many are taken), each counting step moves its pointer forward,
\* each selection aborts or adds exactly one id, and the number of ids never
\* passes max(target, k), so at most target - k rounds run.
C10_Terminates ==
    /\ [](Building => ENABLED BuildNext)
    /\ [](Variant >= 0)
    /\ [](VocabularySize <= Max(target_vocabulary_size, AlphabetSize))
    /\ [][/\ Building => Variant' < Variant
          /\ (builder = "generate" /\ pc = "count" /\ pointer < Len(input)) =>
                (pc' = "panic" \/ pointer' > pointer)
          /\ \A c \in DOMAIN workers :
                (c \in DOMAIN workers' /\ workers'[c] # workers[c]
                    /\ workers'[c].status = "running") =>
                        workers'[c].pointer > workers[c].pointer
          /\ (SeqCounted \/ ParCounted) =>
                (pc' = "panic" \/ (pc' = "loop" /\ tokenizer'.lookup # Lookup
                    /\ Cardinality(DOMAIN tokenizer'.lookup) = VocabularySize + 1))
         ]_vars

\* the same under fairness: a build that has started ends
C10_BuildsEnd == Building ~> Ended

\* a builder returned after two merge rounds
C10_Witness ==
    /\ pc = "done"
    /\ builder = "parallel"
    /\ Len(inputs) >= 2
    /\ curr_token_value = FirstPassSize + 2

\* the number k of distinct symbols of generate's corpus
DistinctSymbols == Cardinality(Alphabet(input))

\* the single-symbol sequences of generate's corpus
Singles == {<<s>> : s \in Alphabet(input)}

\* C11: when target_vocabulary_size is at most the number k of distinct
\* symbols of the corpus (the empty corpus with target 0 included), generate
\* never enters a merge round and never aborts, and the tokenizer it returns
\* holds exactly the k single-symbol sequences, one id of 0..k-1 each, in
\* lookup and in the trie; on an empty corpus no iteration of the counting
\* loop (the only place of the length-minus-one comparison) is ever taken.
C11_AlphabetOnly ==
    /\ []((builder = "generate" /\ target_vocabulary_size <= DistinctSymbols) =>
            /\ pc \notin {"count", "panic"}
            /\ pairs_count = EmptyMap
            /\ pc = "done" =>
                /\ DOMAIN Lookup = 0..(DistinctSymbols - 1)
                /\ Range(Lookup) = Singles
                /\ DOMAIN Trie = Singles
                /\ \A t \in Singles : Trie[t] \in DOMAIN Lookup /\ Lookup[Trie[t]] = t)
    /\ [][(builder = "generate" /\ input = <<>>) => ~SeqCountStep]_vars

\* generate returned on a corpus of two distinct symbols with the target
\* equal to two
C11_Witness ==
    /\ builder = "generate"
    /\ pc = "done"
    /\ DistinctSymbols = 2
    /\ target_vocabulary_size = DistinctSymbols
    /\ Len(input) >= 3

\* generate was called on the corpus aaaa with target size 2
ScenarioA ==
    /\ builder = "generate"
    /\ input = <<"a", "a", "a", "a">>
    /\ target_vocabulary_size = 2

\* C12: generate on the corpus aaaa (alphabet {a}) with target size 2 does
\* not abort and returns the vocabulary {a: 0, aa: 1}; on the returned
\* tokenizer tokenize(aaaa) gives [1, 1] and detokenize([1, 1]) gives aaaa,
\* neither aborting.
C12_ScenarioA ==
    ScenarioA =>
        /\ pc # "panic"
        /\ pc = "done" =>
            /\ Lookup = (0 :> <<"a">>) @@ (1 :> <<"a", "a">>)
            /\ Trie = (<<"a">> :> 0) @@ (<<"a", "a">> :> 1)
        /\ read_buffer = input =>
            /\ pc # "tokenize_panic"
            /\ pc \in {"tokenized", "detokenized", "detokenize_panic"} =>
                    write_buffer = <<1, 1>>
        /\ write_buffer = <<1, 1>> =>
            /\ pc # "detokenize_panic"
            /\ pc = "detokenized" => detokenized = <<"a", "a", "a", "a">>

\* the scenario was run to its end: aaaa tokenized and detokenized
C12_Witness ==
    /\ ScenarioA
    /\ pc = "detokenized"
    /\ read_buffer = input
    /\ write_buffer = <<1, 1>>
    /\ detokenized = input

\* the length of the longest prefix of buf from position `from` on that is
\* the path of a trie node; 0 when the symbol at `from` has no root node
LongestMatch(tk, buf, from) ==
    LET lens == {n \in 1..(Len(buf) - from) :
                    SubSeq(buf, from + 1, from + n) \in DOMAIN tk.children}
    IN  IF lens = {} THEN 0 ELSE CHOOSE n \in lens : \A l \in lens : l <= n

\* buf cut from `from` on into longest matches, left to right: the ids at
\* the nodes of the matches, and the position where the cutting ends (the
\* end of buf, or the first symbol without a root node)
RECURSIVE LongestMatchIds(_, _, _)
LongestMatchIds(tk, buf, from) ==
    IF from >= Len(buf) THEN [ids |-> <<>>, end |-> from]
    ELSE LET n == LongestMatch(tk, buf, from) IN
         IF n = 0 THEN [ids |-> <<>>, end |-> from]
         ELSE LET rest == LongestMatchIds(tk, buf, from + n) IN
              [ids |-> <<tk.children[SubSeq(buf, from + 1, from + n)]>> \o rest.ids,
               end |-> rest.end]

\* Tokenizer::tokenize was called on read_buffer (and returned or aborted)
TokenizeCalled ==
    pc \in {"tokenized", "tokenize_panic", "detokenized", "detokenize_panic"}

\* C13: Tokenizer::tokenize cuts its input left to right without
\* backtracking: a dispatch at any position whose symbol has a root node
\* moves the pointer forward by the length of the longest prefix of the
\* remaining input that is a node path of the trie (at least one symbol) and
\* emits the one id stored at that node; the ids written are those of the
\* successive longest matches, and a call that returns ends with the pointer
\* at the input's length.
C13_LongestMatchSegmentation ==
    TokenizeCalled =>
        LET r == TokenizerTokenize(tokenizer, read_buffer, <<>>, 0)
            e == LongestMatchIds(tokenizer, read_buffer, 0)
        IN  /\ write_buffer = r.write_buffer
            /\ r.write_buffer = e.ids
            /\ r.pointer = e.end
            /\ r.panic <=> pc = "tokenize_panic"
            /\ ~r.panic => r.pointer = Len(read_buffer)
            /\ \A p \in 0..(Len(read_buffer) - 1) :
                <<read_buffer[p + 1]>> \in DOMAIN Trie =>
                    LET d == NodeTokenize(Trie, <<read_buffer[p + 1]>>, read_buffer, p)
                        n == LongestMatch(tokenizer, read_buffer, p)
                    IN  /\ n >= 1
                        /\ d.pointer = p + n
                        /\ d.id = Trie[SubSeq(read_buffer, p + 1, p + n)]

\* a call that cut its input into a merged token of three symbols and a
\* token shorter than the first one
C13_Witness ==
    /\ pc = "tokenized"
    /\ Len(write_buffer) >= 2
    /\ \E i \in 1..Len(write_buffer) : Len(Lookup[write_buffer[i]]) >= 3
    /\ \E i \in 1..Len(write_buffer) :
            Len(Lookup[write_buffer[i]]) < Len(Lookup[write_buffer[1]])

\* the non-empty prefixes of a token
Prefixes(token) == {SubSeq(token, 1, n) : n \in 1..Len(token)}

\* what Tokenizer::register(token, token_value) is to make of tokenizer
\* `before`: a node for every prefix of token and no other new node, the id
\* at the node of token, 0 at every new node of a strict prefix, the id of
\* every other node of `before` as it was, lookup[token_value] = token and
\* the other entries of lookup as they were
Registers(before, after, token, token_value) ==
    /\ DOMAIN after.children = (DOMAIN before.children) \cup Prefixes(token)
    /\ after.children[token] = token_value
    /\ \A q \in Prefixes(token) \ {token} :
            q \notin DOMAIN before.children => after.children[q] = 0
    /\ \A q \in (DOMAIN before.children) \ {token} :
            after.children[q] = before.children[q]
    /\ DOMAIN after.lookup = (DOMAIN before.lookup) \cup {token_value}
    /\ after.lookup[token_value] = token
    /\ \A i \in (DOMAIN before.lookup) \ {token_value} :
            after.lookup[i] = before.lookup[i]

\* C14: Tokenizer::register(token, token_value) with a non-empty token
\* leaves a node for every prefix of token, sets the id of the node of token
\* to token_value (overwriting the id of a node that existed), gives every
\* node of a strict prefix that it creates the placeholder 0, leaves the id
\* of every other node as it was, and sets lookup[token_value] to token.
C14_RegisterFrame ==
    [][registered' # registered =>
            LET call == registered'[Len(registered')] IN
            Registers(tokenizer, tokenizer', call[1], call[2])]_vars

\* a token of three symbols was registered on the empty tokenizer under a
\* non-zero id, leaving placeholders at its prefixes, and then one of the
\* prefixes was registered, overwriting its placeholder
C14_Witness ==
    /\ Len(registered) = 2
    /\ Len(registered[1][1]) = 3
    /\ registered[1][2] # 0
    /\ registered[2][1] = SubSeq(registered[1][1], 1, 2)
    /\ registered[2][2] # 0
    /\ Trie[registered[2][1]] = registered[2][2]
    /\ Trie[SubSeq(registered[1][1], 1, 1)] = 0

\* s is a non-empty run of consecutive symbols of buf
ContiguousIn(s, buf) ==
    \E i \in 1..Len(buf) : \E j \in i..Len(buf) : s = SubSeq(buf, i, j)

\* the frequency map of one chunk counted alone, by the counting loop of
\* the sequential builder (lib.rs 191-211) run on the chunk as its corpus
RECURSIVE CountAlone(_, _, _, _)
CountAlone(tk, chunk, from, counts) ==
    IF from < Len(chunk)
    THEN LET r == SeqCountIter(tk, chunk, from, counts) IN
         IF r.panic THEN counts
         ELSE CountAlone(tk, chunk, r.pointer, r.pairs_count)
    ELSE counts

CountOf(counts, k) == IF k \in DOMAIN counts THEN counts[k] ELSE 0

\* C15: in each round of the parallel builder, once the map and reduce
\* phases are over, the consolidated count of every span is the sum over the
\* chunks of the count the span gets when the chunk is counted alone against
\* the round's tokenizer; summing the workers' maps in any other order gives
\* the same map; and at any time the spans a worker has counted are runs of
\* consecutive symbols of its own chunk.
C15_ConsolidatedIsSumOverChunks ==
    /\ builder = "parallel" =>
            \A c \in DOMAIN workers : \A k \in DOMAIN workers[c].pairs_count :
                ContiguousIn(k, inputs[c])
    /\ ParCounted =>
            LET alone == [c \in Chunks |-> CountAlone(tokenizer, inputs[c], 0, EmptyMap)] IN
            /\ DOMAIN consolidated_pair_counts = UNION {DOMAIN alone[c] : c \in Chunks}
            /\ \A k \in DOMAIN consolidated_pair_counts :
                    consolidated_pair_counts[k] =
                        SumOver([c \in Chunks |-> CountOf(alone[c], k)], Chunks)
            /\ \A order \in Permutations(Chunks) :
                    Consolidate(EmptyMap, [i \in Chunks |-> rslts[order[i]]])
                        = consolidated_pair_counts

\* a round after the first one has consolidated the maps of two chunks that
\* both counted the same span
C15_Witness ==
    /\ ParCounted
    /\ Len(inputs) >= 2
    /\ curr_token_value > FirstPassSize
    /\ \E k \in DOMAIN consolidated_pair_counts :
        /\ \A c \in Chunks : k \in DOMAIN workers[c].pairs_count
        /\ consolidated_pair_counts[k] >= 2
    /\ \E c \in Chunks : \E k \in DOMAIN workers[c].pairs_count : Len(k) >= 2

\* a builder was called (and is running, has returned or has aborted)
BuilderCalled == builder \in {"generate", "parallel"}

\* C16: in every state of the tokenizer during and after a build by either
\* builder, every trie node holds the id of a registered token whose
\* sequence is the node's path from the root: no node carries the
\* placeholder 0 of a path that was never registered.
C16_NodesHoldTheirToken ==
    BuilderCalled =>
        \A path \in DOMAIN Trie :
            /\ Trie[path] \in DOMAIN Lookup
            /\ Lookup[Trie[path]] = path

\* a builder returned a trie with a node three symbols deep
C16_Witness ==
    /\ BuilderCalled
    /\ pc = "done"
    /\ \E path \in DOMAIN Trie : Len(path) >= 3 /\ Trie[path] # 0
    /\ \E path \in DOMAIN Trie : Len(path) = 2 /\ Trie[path] # 0

\* every token of two or more symbols has the token one symbol shorter
\* registered under a lower id
PrefixRegisteredEarlier ==
    \A i \in DOMAIN Lookup :
        Len(Lookup[i]) >= 2 =>
            \E j \in DOMAIN Lookup :
                /\ j < i
                /\ Lookup[j] = SubSeq(Lookup[i], 1, Len(Lookup[i]) - 1)

\* s is a run of consecutive symbols of the corpus: of generate's input, or
\* of one chunk of the parallel builder
InCorpus(s) ==
    IF builder = "generate" THEN ContiguousIn(s, input)
    ELSE \E c \in Chunks : ContiguousIn(s, inputs[c])

\* C17 as stated: at every point of a build the vocabulary is
\* prefix-closed, every token of length n >= 2 having its prefix of length
\* n-1 registered under a lower id, and every registered sequence is a run
\* of consecutive symbols of the corpus (of one chunk in the parallel
\* builder).
C17_PrefixClosedFromCorpus ==
    BuilderCalled =>
        /\ PrefixRegisteredEarlier
        /\ \A i \in DOMAIN Lookup : InCorpus(Lookup[i])

\* C17, amended: at every point of a build every token of length n >= 2
\* has its prefix of length n-1 registered under a lower id and is a run of
\* consecutive symbols of the corpus (of one chunk in the parallel builder);
\* every single-symbol token is a symbol of the corpus in generate and an
\* element of the base vocabulary, occurring in a chunk or not, in the
\* parallel builder.
C17_PrefixClosedFromCorpusOrBase ==
    BuilderCalled =>
        /\ PrefixRegisteredEarlier
        /\ \A i \in DOMAIN Lookup :
            /\ Len(Lookup[i]) >= 1
            /\ Len(Lookup[i]) >= 2 => InCorpus(Lookup[i])
            /\ Len(Lookup[i]) = 1 =>
                IF builder = "generate" THEN InCorpus(Lookup[i])
                ELSE Lookup[i][1] \in base_vocabulary

\* the parallel builder returned a vocabulary with a token of three symbols
\* and a base symbol that occurs in no chunk
C17_Witness ==
    /\ builder = "parallel"
    /\ pc = "done"
    /\ \E i \in DOMAIN Lookup : Len(Lookup[i]) >= 3
    /\ \E i \in DOMAIN Lookup : ~InCorpus(Lookup[i])

====
